---- MODULE Spec2Model ----
(***************************************************************************)
(* BelegBoost: tenant resolution (middleware, getSubdomain,                *)
(* getTenantContext), session handling and the tax-advisor registration    *)
(* sequence (registerTaxAdvisor) over the Appwrite store.                  *)
(*                                                                         *)
(* Strings are sequences of atoms.  An atom is an indivisible chunk of     *)
(* characters ("localhost", ".", ":3000", ...); concatenating the atoms    *)
(* gives the JavaScript string.  No atom is a proper part of a needle the  *)
(* code searches for, so includes / split / === on atom sequences agree    *)
(* with the same operations on the character strings.                      *)
(***************************************************************************)
EXTENDS Integers, Sequences, FiniteSets, TLC

(***************************************************************************)
(* Bounds                                                                  *)
(***************************************************************************)
\* longest Host header, in atoms
MaxHostLen == 5
\* number of registerTaxAdvisor calls that may be started in one behaviour
MaxCalls == 2
\* number of documents the data-access functions may create in one behaviour
MaxDocs == 5
\* largest total_items of a checklist
MaxItems == 200

(***************************************************************************)
(* String helpers (JavaScript String.prototype)                            *)
(***************************************************************************)
Str(a) == <<a>>

EmptyStr == <<>>

\* String.prototype.includes
includes(hay, needle) ==
    \E i \in 0..(Len(hay) - Len(needle)) :
        SubSeq(hay, i + 1, i + Len(needle)) = needle

\* String.prototype.endsWith
endsWith(hay, needle) ==
    /\ Len(hay) >= Len(needle)
    /\ SubSeq(hay, Len(hay) - Len(needle) + 1, Len(hay)) = needle

DotIndexes(s) == {i \in 1..Len(s) : s[i] = "."}

Min(S) == CHOOSE x \in S : \A y \in S : x <= y

RECURSIVE split(_)
\* String.prototype.split('.')
split(s) ==
    IF DotIndexes(s) = {}
    THEN <<s>>
    ELSE LET i == Min(DotIndexes(s))
         IN  <<SubSeq(s, 1, i - 1)>> \o split(SubSeq(s, i + 1, Len(s)))

\* number of characters of every atom
CharLen(a) ==
    CASE a = "." -> 1
      [] a = "-" -> 1
      [] a = "de" -> 2
      [] a = "ADMIN" -> 5
      [] a = ":3000" -> 5
      [] a = "mueller" -> 7
      [] a = "schmidt" -> 7
      [] a = "localhost" -> 9
      [] a = "belegboost" -> 10
      [] a = "www" -> 3
      [] a = "app" -> 3
      [] a = "api" -> 3
      [] a = "admin" -> 5
      [] a = "dashboard" -> 9
      [] a = "auth" -> 4
      [] a = "login" -> 5
      [] a = "logout" -> 6
      [] a = "register" -> 8
      [] a = "signup" -> 6
      [] a = "signin" -> 6
      [] a = "mail" -> 4
      [] a = "email" -> 5
      [] a = "smtp" -> 4
      [] a = "ftp" -> 3
      [] a = "help" -> 4
      [] a = "support" -> 7
      [] a = "docs" -> 4
      [] a = "blog" -> 4
      [] a = "status" -> 6
      [] a = "cdn" -> 3
      [] a = "assets" -> 6
      [] a = "static" -> 6
      [] a = "media" -> 5
      [] a = "uploads" -> 7
      [] a = "downloads" -> 9
      [] a = "test" -> 4
      [] a = "testing" -> 7
      [] a = "staging" -> 7
      [] a = "dev" -> 3
      [] a = "development" -> 11
      [] a = "prod" -> 4
      [] a = "production" -> 10

RECURSIVE length(_)
\* String.prototype.length
length(s) == IF s = <<>> THEN 0 ELSE CharLen(Head(s)) + length(Tail(s))

\* the words of the reserved list
ReservedWords ==
    {"www", "app", "api", "admin", "dashboard", "auth", "login", "logout",
     "register", "signup", "signin", "mail", "email", "smtp", "ftp", "help",
     "support", "docs", "blog", "status", "cdn", "assets", "static", "media",
     "uploads", "downloads", "test", "testing", "staging", "dev",
     "development", "prod", "production"}

\* atoms made of [a-z0-9] only
LowerAlnumAtoms ==
    {"de", "mueller", "schmidt", "localhost", "belegboost"} \cup ReservedWords

toLowerCaseAtom(a) == IF a = "ADMIN" THEN "admin" ELSE a

\* String.prototype.toLowerCase
toLowerCase(s) == [i \in 1..Len(s) |-> toLowerCaseAtom(s[i])]

(***************************************************************************)
(* Configuration constants                                                 *)
(***************************************************************************)
LOCALHOST == Str("localhost")

ROOT_DOMAIN == <<"belegboost", ".", "de">>

WWW == Str("www")

RESERVED_SUBDOMAINS == {Str(w) : w \in ReservedWords}

(***************************************************************************)
(* Host Router                                                             *)
(***************************************************************************)
\* middleware's subdomain without the test that the host has a second label
middlewareSubdomainAnyLength(hostname) ==
    LET parts == split(hostname)
    IN  IF includes(hostname, LOCALHOST)
        THEN IF parts[1] # LOCALHOST THEN parts[1] ELSE EmptyStr
        ELSE IF includes(hostname, ROOT_DOMAIN)
        THEN IF parts[1] = WWW \/ Len(parts) = 2
             THEN EmptyStr
             ELSE IF Len(parts) = 3 THEN parts[1] ELSE EmptyStr
        ELSE EmptyStr

\* the subdomain variable of middleware ('' when none)
middlewareSubdomain(hostname) ==
    LET parts == split(hostname)
    IN  IF includes(hostname, LOCALHOST)
        THEN IF Len(parts) > 1 /\ parts[1] # LOCALHOST
             THEN parts[1] ELSE EmptyStr
        ELSE IF includes(hostname, ROOT_DOMAIN)
        THEN IF parts[1] = WWW \/ Len(parts) = 2
             THEN EmptyStr
             ELSE IF Len(parts) = 3 THEN parts[1] ELSE EmptyStr
        ELSE EmptyStr

TENANTS_PREFIX == Str("/tenants/")

\* middleware, had it rewritten to the tenant namespace without the path
middlewareDropsPath(hostname, pathname) ==
    LET subdomain == middlewareSubdomain(hostname)
    IN  IF subdomain = EmptyStr
        THEN [kind |-> "next", pathname |-> pathname]
        ELSE [kind |-> "rewrite", pathname |-> TENANTS_PREFIX \o subdomain]

\* middleware: NextResponse.next() or NextResponse.rewrite(url)
middleware(hostname, pathname) ==
    LET subdomain == middlewareSubdomain(hostname)
    IN  IF subdomain = EmptyStr
        THEN [kind |-> "next", pathname |-> pathname]
        ELSE [kind |-> "rewrite",
              pathname |-> TENANTS_PREFIX \o subdomain \o pathname]

\* null, and a non-null value v, of a nullable result
Null == [isNull |-> TRUE, value |-> <<>>]

Some(v) == [isNull |-> FALSE, value |-> v]

\* getSubdomain, had it taken the only label of a local host as the slug
getSubdomainAnyLength(hostname) ==
    LET parts == split(hostname)
    IN  IF includes(hostname, LOCALHOST)
        THEN IF Len(parts) > 0 /\ parts[1] # LOCALHOST
             THEN Some(parts[1]) ELSE Null
        ELSE IF includes(hostname, ROOT_DOMAIN)
        THEN IF parts[1] # WWW /\ Len(parts) = 3
             THEN Some(parts[1]) ELSE Null
        ELSE Null

\* getSubdomain: the subdomain or null
getSubdomain(hostname) ==
    LET parts == split(hostname)
    IN  IF includes(hostname, LOCALHOST)
        THEN IF Len(parts) > 1 /\ parts[1] # LOCALHOST
             THEN Some(parts[1]) ELSE Null
        ELSE IF includes(hostname, ROOT_DOMAIN)
        THEN IF parts[1] # WWW /\ Len(parts) = 3
             THEN Some(parts[1]) ELSE Null
        ELSE Null

\* identifiers are pairs <<kind, number>>; NoId is the absent identifier
NoId == <<"none", 0>>

PLACEHOLDER_TENANT_ID == <<"placeholder-tenant-id", 0>>

PLACEHOLDER_USER_ID == <<"placeholder-user-id", 0>>

\* the subdomain variable of getTenantContext ('' when none)
contextSubdomain(hostname) ==
    LET parts == split(hostname)
    IN  IF includes(hostname, LOCALHOST)
        THEN IF Len(parts) > 1 /\ parts[1] # LOCALHOST
             THEN parts[1] ELSE EmptyStr
        ELSE IF includes(hostname, ROOT_DOMAIN)
        THEN IF parts[1] # WWW /\ Len(parts) = 3
             THEN parts[1] ELSE EmptyStr
        ELSE EmptyStr

\* getTenantContext: a TenantContext, or the thrown Error
getTenantContext(hostname) ==
    LET subdomain == contextSubdomain(hostname)
    IN  IF subdomain = EmptyStr
        THEN [ok |-> FALSE,
              error |-> "No tenant subdomain found in request",
              tenantId |-> NoId, userId |-> NoId, role |-> "",
              subdomain |-> EmptyStr]
        ELSE [ok |-> TRUE,
              error |-> "",
              tenantId |-> PLACEHOLDER_TENANT_ID,
              userId |-> PLACEHOLDER_USER_ID,
              role |-> "owner",
              subdomain |-> subdomain]

(***************************************************************************)
(* State                                                                   *)
(***************************************************************************)
\* the callers (browsers) that may act concurrently
Clients == {"c1", "c2"}

VARIABLES
    tenants,        \* documents of the tenants collection
    organizations,  \* documents of the organizations collection
    users,          \* documents of the users collection
    accounts,       \* Appwrite accounts (identities)
    teams,          \* Appwrite teams
    memberships,    \* Appwrite team memberships
    sessions,       \* Appwrite sessions
    calls,          \* number of registerTaxAdvisor calls started so far
    pc,             \* per caller: position inside registerTaxAdvisor
    form,           \* per caller: the formData of the current / last call
    loc,            \* per caller: local variables of the call
    result,         \* per caller: the ActionResult of the last call
    cookie,         \* per caller: value of the session cookie
    req             \* the last routing / context request and its outcome

store == <<tenants, organizations, users, accounts, teams, memberships,
           sessions>>

vars == <<tenants, organizations, users, accounts, teams, memberships,
          sessions, calls, pc, form, loc, result, cookie, req>>

NoForm == [subdomain |-> EmptyStr, email |-> EmptyStr, fieldsValid |-> FALSE]

NoLoc == [n |-> 0, subdomain |-> EmptyStr, appwriteUser |-> NoId,
          team |-> NoId, tenant |-> NoId, organization |-> NoId,
          error |-> ""]

NoResult == [returned |-> FALSE, success |-> FALSE, error |-> "",
             subdomain |-> EmptyStr]

NoReq == [op |-> "none", host |-> EmptyStr, path |-> EmptyStr,
          credential |-> NoId, out |-> Null]

Init ==
    /\ tenants = {}
    /\ organizations = {}
    /\ users = {}
    /\ accounts = {}
    /\ teams = {}
    /\ memberships = {}
    /\ sessions = {}
    /\ calls = 0
    /\ pc = [c \in Clients |-> "idle"]
    /\ form = [c \in Clients |-> NoForm]
    /\ loc = [c \in Clients |-> NoLoc]
    /\ result = [c \in Clients |-> NoResult]
    /\ cookie = [c \in Clients |-> NoId]
    /\ req = NoReq

(***************************************************************************)
(* Validation (zod registrationSchema)                                     *)
(***************************************************************************)
\* subdomainRegex = /^[a-z0-9]([a-z0-9-]{1,61}[a-z0-9])?$/
subdomainRegex(s) ==
    /\ Len(s) >= 1
    /\ \A i \in 1..Len(s) : s[i] \in LowerAlnumAtoms \cup {"-"}
    /\ s[1] \in LowerAlnumAtoms
    /\ s[Len(s)] \in LowerAlnumAtoms
    /\ length(s) = 1 \/ (length(s) >= 3 /\ length(s) <= 63)

\* registrationSchema.parse succeeds (no ZodError)
registrationSchemaValid(formData) ==
    /\ formData.fieldsValid
    /\ length(formData.subdomain) >= 3
    /\ length(formData.subdomain) <= 63
    /\ subdomainRegex(formData.subdomain)

\* registrationSchema.parse: the validated data
registrationSchemaParse(formData) ==
    [subdomain |-> toLowerCase(formData.subdomain),
     email |-> toLowerCase(formData.email)]

(***************************************************************************)
(* Data access layer                                                       *)
(***************************************************************************)
\* isSubdomainAvailable: result.total === 0
isSubdomainAvailable(subdomain) ==
    ~ \E t \in tenants : t.subdomain = subdomain

\* getTenantBySubdomain: documents[0] or null (null also when the query fails)
getTenantBySubdomain(subdomain, dbOk) ==
    IF dbOk /\ \E t \in tenants : t.subdomain = subdomain
    THEN Some(CHOOSE t \in tenants : t.subdomain = subdomain)
    ELSE Null

\* the tenants collection without its unique index
subdomainUniqueNoIndex(subdomain) == TRUE

\* index subdomain_unique of the tenants collection
subdomainUnique(subdomain) ==
    ~ \E t \in tenants : t.subdomain = subdomain

\* getUserByAppwriteId: documents[0] or null
getUserByAppwriteId(appwriteUserId, dbOk) ==
    IF dbOk /\ \E u \in users : u.appwrite_user_id = appwriteUserId
    THEN Some(CHOOSE u \in users : u.appwrite_user_id = appwriteUserId)
    ELSE Null

(***************************************************************************)
(* Session resolver                                                        *)
(***************************************************************************)
\* getCurrentUser without its catch block: the error of account.get()
\* escapes to the caller
getCurrentUserUncaught(sessionId, providerOk) ==
    IF sessionId = NoId
    THEN Null
    ELSE IF providerOk /\ \E s \in sessions : s.id = sessionId
    THEN Some((CHOOSE s \in sessions : s.id = sessionId).userId)
    ELSE Some(<<"AppwriteException", 401>>)

\* getCurrentUser: the Appwrite user of the session cookie, or null
getCurrentUser(sessionId, providerOk) ==
    IF sessionId = NoId
    THEN Null
    ELSE IF providerOk /\ \E s \in sessions : s.id = sessionId
    THEN Some((CHOOSE s \in sessions : s.id = sessionId).userId)
    ELSE Null

\* validateSession
validateSession(sessionId, providerOk) ==
    ~ getCurrentUser(sessionId, providerOk).isNull

(***************************************************************************)
(* registerTaxAdvisor, one action per stretch of code between two awaits   *)
(***************************************************************************)
FormSubdomains == {Str("mueller"), Str("schmidt"), Str("admin"), Str("ADMIN")}

FormEmails == {Str("anna@x.de"), Str("bert@x.de")}

FormData == [subdomain : FormSubdomains, email : FormEmails,
             fieldsValid : BOOLEAN]

ERR_VALIDATION == "Validierungsfehler: Bitte ueberpruefen Sie Ihre Eingaben"

ERR_UNEXPECTED == "Ein unerwarteter Fehler ist aufgetreten"

ERR_RESERVED ==
    "Diese Subdomain ist reserviert und kann nicht verwendet werden"

ERR_TAKEN == "Diese Subdomain ist bereits vergeben"

ERR_DUPLICATE_EMAIL ==
    "Ein Benutzer mit dieser E-Mail-Adresse existiert bereits"

ERR_ACCOUNT == "Fehler beim Erstellen des Benutzerkontos"

ERR_TEAM == "Fehler beim Erstellen des Teams"

ERR_TENANT == "Fehler beim Erstellen des Tenants"

ERR_ORGANIZATION == "Fehler beim Erstellen der Organisation"

ERR_USER == "Fehler beim Erstellen des Benutzerdatensatzes"

\* return { success: false, error }
Failure(error) ==
    [returned |-> TRUE, success |-> FALSE, error |-> error,
     subdomain |-> EmptyStr]

\* return { success: true, data: { subdomain } }
Success(subdomain) ==
    [returned |-> TRUE, success |-> TRUE, error |-> "",
     subdomain |-> subdomain]

Return(c, r) ==
    /\ pc' = [pc EXCEPT ![c] = "done"]
    /\ result' = [result EXCEPT ![c] = r]

Goto(c, label) ==
    /\ pc' = [pc EXCEPT ![c] = label]
    /\ UNCHANGED result

\* the reserved-subdomain check left out
isReservedSkipped(subdomain) == FALSE

\* the subdomain is on the reserved list
isReserved(subdomain) == toLowerCase(subdomain) \in RESERVED_SUBDOMAINS

\* entry: registrationSchema.parse and the reserved-subdomain check
RegisterStart(c, formData) ==
    /\ pc[c] \in {"idle", "done"}
    /\ calls < MaxCalls
    /\ calls' = calls + 1
    /\ form' = [form EXCEPT ![c] = formData]
    /\ IF ~ registrationSchemaValid(formData)
       THEN /\ loc' = [loc EXCEPT ![c] = [NoLoc EXCEPT !.n = calls + 1]]
            /\ Return(c, Failure(ERR_VALIDATION))
       ELSE LET validatedData == registrationSchemaParse(formData)
            IN  /\ loc' = [loc EXCEPT ![c] =
                       [NoLoc EXCEPT !.n = calls + 1,
                                     !.subdomain = validatedData.subdomain]]
                /\ IF isReserved(validatedData.subdomain)
                   THEN Return(c, Failure(ERR_RESERVED))
                   ELSE /\ pc' = [pc EXCEPT ![c] = "isSubdomainAvailable"]
                        /\ result' = [result EXCEPT ![c] = NoResult]
    /\ UNCHANGED <<store, cookie, req>>

\* await isSubdomainAvailable(validatedData.subdomain)
RegisterCheckAvailable(c) ==
    /\ pc[c] = "isSubdomainAvailable"
    /\ \E dbOk \in BOOLEAN :
        IF ~ dbOk
        THEN Return(c, Failure(ERR_UNEXPECTED))
        ELSE IF ~ isSubdomainAvailable(loc[c].subdomain)
        THEN Return(c, Failure(ERR_TAKEN))
        ELSE Goto(c, "account.create")
    /\ UNCHANGED <<store, calls, form, loc, cookie, req>>

\* the account.create step, had the team been created before it
RegisterCreateAccountAfterTeam(c) ==
    /\ pc[c] = "account.create"
    /\ LET email == registrationSchemaParse(form[c]).email
           id == <<"account", loc[c].n>>
       IN  \E outcome \in {"created", "conflict", "error"} :
            \/ /\ outcome = "created"
               /\ ~ \E a \in accounts : a.email = email
               /\ accounts' = accounts \cup {[id |-> id, email |-> email]}
               /\ loc' = [loc EXCEPT ![c].appwriteUser = id]
               /\ Goto(c, "teams.create")
               /\ UNCHANGED teams
            \/ /\ outcome = "conflict"
               /\ \E a \in accounts : a.email = email
               /\ teams' = teams \cup {<<"team", loc[c].n>>}
               /\ Return(c, Failure(ERR_DUPLICATE_EMAIL))
               /\ UNCHANGED <<accounts, loc>>
            \/ /\ outcome = "error"
               /\ Return(c, Failure(ERR_ACCOUNT))
               /\ UNCHANGED <<accounts, loc, teams>>
    /\ UNCHANGED <<tenants, organizations, users, memberships,
                   sessions, calls, form, cookie, req>>

\* await account.create(ID.unique(), email, password, name)
RegisterCreateAccount(c) ==
    /\ pc[c] = "account.create"
    /\ LET email == registrationSchemaParse(form[c]).email
           id == <<"account", loc[c].n>>
       IN  \E outcome \in {"created", "conflict", "error"} :
            \/ /\ outcome = "created"
               /\ ~ \E a \in accounts : a.email = email
               /\ accounts' = accounts \cup {[id |-> id, email |-> email]}
               /\ loc' = [loc EXCEPT ![c].appwriteUser = id]
               /\ Goto(c, "teams.create")
            \/ /\ outcome = "conflict"
               /\ \E a \in accounts : a.email = email
               /\ Return(c, Failure(ERR_DUPLICATE_EMAIL))
               /\ UNCHANGED <<accounts, loc>>
            \/ /\ outcome = "error"
               /\ Return(c, Failure(ERR_ACCOUNT))
               /\ UNCHANGED <<accounts, loc>>
    /\ UNCHANGED <<tenants, organizations, users, teams, memberships,
                   sessions, calls, form, cookie, req>>

\* the teams.create step, had its catch block deleted the account
RegisterCreateTeamWithCleanup(c) ==
    /\ pc[c] = "teams.create"
    /\ LET id == <<"team", loc[c].n>>
       IN  \E ok \in BOOLEAN :
            IF ok
            THEN /\ teams' = teams \cup {id}
                 /\ loc' = [loc EXCEPT ![c].team = id]
                 /\ Goto(c, "teams.createMembership")
                 /\ UNCHANGED accounts
            ELSE /\ accounts' =
                        {a \in accounts : a.id # loc[c].appwriteUser}
                 /\ Return(c, Failure(ERR_TEAM))
                 /\ UNCHANGED <<teams, loc>>
    /\ UNCHANGED <<tenants, organizations, users, memberships,
                   sessions, calls, form, cookie, req>>

\* await teams.create(ID.unique(), firmName, ['owner'])
RegisterCreateTeam(c) ==
    /\ pc[c] = "teams.create"
    /\ LET id == <<"team", loc[c].n>>
       IN  \E ok \in BOOLEAN :
            IF ok
            THEN /\ teams' = teams \cup {id}
                 /\ loc' = [loc EXCEPT ![c].team = id]
                 /\ Goto(c, "teams.createMembership")
            ELSE /\ Return(c, Failure(ERR_TEAM))
                 /\ UNCHANGED <<teams, loc>>
    /\ UNCHANGED <<tenants, organizations, users, accounts, memberships,
                   sessions, calls, form, cookie, req>>

\* await teams.createMembership(team.$id, ['owner'], email, userId, ...)
RegisterCreateMembership(c) ==
    /\ pc[c] = "teams.createMembership"
    /\ \E ok \in BOOLEAN :
        IF ok
        THEN memberships' = memberships \cup
                {[team |-> loc[c].team, userId |-> loc[c].appwriteUser,
                  roles |-> {"owner"}]}
        ELSE UNCHANGED memberships
    /\ Goto(c, "createTenant")
    /\ UNCHANGED <<tenants, organizations, users, accounts, teams,
                   sessions, calls, form, loc, cookie, req>>

\* the createTenant step, had its catch block returned without teams.delete
RegisterCreateTenantNoCleanup(c) ==
    /\ pc[c] = "createTenant"
    /\ LET id == <<"tenant", loc[c].n>>
       IN  \E dbOk \in BOOLEAN :
            IF dbOk /\ subdomainUnique(loc[c].subdomain)
            THEN /\ tenants' = tenants \cup
                        {[id |-> id, team_id |-> loc[c].team,
                          subdomain |-> loc[c].subdomain,
                          owner_email |->
                              registrationSchemaParse(form[c]).email,
                          status |-> "active"]}
                 /\ loc' = [loc EXCEPT ![c].tenant = id]
                 /\ Goto(c, "createOrganization")
            ELSE /\ loc' = [loc EXCEPT ![c].error = ERR_TENANT]
                 /\ Return(c, Failure(ERR_TENANT))
                 /\ UNCHANGED tenants
    /\ UNCHANGED <<organizations, users, accounts, teams, memberships,
                   sessions, calls, form, cookie, req>>

\* await createTenant({teamId, subdomain, name, ownerEmail}); the document
\* is rejected when the store fails or the unique index is violated
RegisterCreateTenant(c) ==
    /\ pc[c] = "createTenant"
    /\ LET id == <<"tenant", loc[c].n>>
       IN  \E dbOk \in BOOLEAN :
            IF dbOk /\ subdomainUnique(loc[c].subdomain)
            THEN /\ tenants' = tenants \cup
                        {[id |-> id, team_id |-> loc[c].team,
                          subdomain |-> loc[c].subdomain,
                          owner_email |->
                              registrationSchemaParse(form[c]).email,
                          status |-> "active"]}
                 /\ loc' = [loc EXCEPT ![c].tenant = id]
                 /\ Goto(c, "createOrganization")
            ELSE /\ loc' = [loc EXCEPT ![c].error = ERR_TENANT]
                 /\ Goto(c, "teams.delete")
                 /\ UNCHANGED tenants
    /\ UNCHANGED <<organizations, users, accounts, teams, memberships,
                   sessions, calls, form, cookie, req>>

\* await createOrganization({tenantId, type: 'advisor', name, contactEmail})
RegisterCreateOrganization(c) ==
    /\ pc[c] = "createOrganization"
    /\ LET id == <<"organization", loc[c].n>>
       IN  \E dbOk \in BOOLEAN :
            IF dbOk
            THEN /\ organizations' = organizations \cup
                        {[id |-> id, tenant_id |-> loc[c].tenant,
                          type |-> "advisor", status |-> "active"]}
                 /\ loc' = [loc EXCEPT ![c].organization = id]
                 /\ Goto(c, "createUser")
            ELSE /\ loc' = [loc EXCEPT ![c].error = ERR_ORGANIZATION]
                 /\ Goto(c, "teams.delete")
                 /\ UNCHANGED organizations
    /\ UNCHANGED <<tenants, users, accounts, teams, memberships,
                   sessions, calls, form, cookie, req>>

\* the createUser step, had it passed the tenant id as the organization id
RegisterCreateUserInTenant(c) ==
    /\ pc[c] = "createUser"
    /\ LET id == <<"user", loc[c].n>>
       IN  \E dbOk \in BOOLEAN :
            IF dbOk
            THEN /\ users' = users \cup
                        {[id |-> id, tenant_id |-> loc[c].tenant,
                          organization_id |-> loc[c].tenant,
                          appwrite_user_id |-> loc[c].appwriteUser,
                          role |-> "owner",
                          email |-> registrationSchemaParse(form[c]).email,
                          status |-> "active"]}
                 /\ Goto(c, "createEmailPasswordSession")
                 /\ UNCHANGED loc
            ELSE /\ loc' = [loc EXCEPT ![c].error = ERR_USER]
                 /\ Goto(c, "teams.delete")
                 /\ UNCHANGED users
    /\ UNCHANGED <<tenants, organizations, accounts, teams, memberships,
                   sessions, calls, form, cookie, req>>

\* await createUser({tenantId, organizationId, appwriteUserId, role, ...})
RegisterCreateUser(c) ==
    /\ pc[c] = "createUser"
    /\ LET id == <<"user", loc[c].n>>
       IN  \E dbOk \in BOOLEAN :
            IF dbOk
            THEN /\ users' = users \cup
                        {[id |-> id, tenant_id |-> loc[c].tenant,
                          organization_id |-> loc[c].organization,
                          appwrite_user_id |-> loc[c].appwriteUser,
                          role |-> "owner",
                          email |-> registrationSchemaParse(form[c]).email,
                          status |-> "active"]}
                 /\ Goto(c, "createEmailPasswordSession")
                 /\ UNCHANGED loc
            ELSE /\ loc' = [loc EXCEPT ![c].error = ERR_USER]
                 /\ Goto(c, "teams.delete")
                 /\ UNCHANGED users
    /\ UNCHANGED <<tenants, organizations, accounts, teams, memberships,
                   sessions, calls, form, cookie, req>>

\* catch block: await teams.delete(team.$id), then return the failure
RegisterCleanup(c) ==
    /\ pc[c] = "teams.delete"
    /\ \E ok \in BOOLEAN :
        IF ok
        THEN /\ teams' = teams \ {loc[c].team}
             /\ memberships' = {m \in memberships : m.team # loc[c].team}
        ELSE UNCHANGED <<teams, memberships>>
    /\ Return(c, Failure(loc[c].error))
    /\ UNCHANGED <<tenants, organizations, users, accounts, sessions,
                   calls, form, loc, cookie, req>>

\* the last step, had it treated a failed session as a failed registration
RegisterCreateSessionOrFail(c) ==
    /\ pc[c] = "createEmailPasswordSession"
    /\ LET id == <<"session", loc[c].n>>
       IN  \E sessionOk \in BOOLEAN, cookieOk \in BOOLEAN :
            /\ ~ sessionOk => ~ cookieOk
            /\ IF sessionOk
               THEN sessions' = sessions \cup
                        {[id |-> id, userId |-> loc[c].appwriteUser]}
               ELSE UNCHANGED sessions
            /\ IF cookieOk
               THEN /\ cookie' = [cookie EXCEPT ![c] = id]
                    /\ Return(c, Success(loc[c].subdomain))
               ELSE /\ UNCHANGED cookie
                    /\ Return(c, Failure(ERR_UNEXPECTED))
    /\ UNCHANGED <<tenants, organizations, users, accounts, teams,
                   memberships, calls, form, loc, req>>

\* await account.createEmailPasswordSession, createSessionCookie, return
RegisterCreateSession(c) ==
    /\ pc[c] = "createEmailPasswordSession"
    /\ LET id == <<"session", loc[c].n>>
       IN  \E sessionOk \in BOOLEAN, cookieOk \in BOOLEAN :
            /\ ~ sessionOk => ~ cookieOk
            /\ IF sessionOk
               THEN sessions' = sessions \cup
                        {[id |-> id, userId |-> loc[c].appwriteUser]}
               ELSE UNCHANGED sessions
            /\ IF cookieOk
               THEN cookie' = [cookie EXCEPT ![c] = id]
               ELSE UNCHANGED cookie
    /\ Return(c, Success(loc[c].subdomain))
    /\ UNCHANGED <<tenants, organizations, users, accounts, teams,
                   memberships, calls, form, loc, req>>

registerTaxAdvisor(c) ==
    \/ \E formData \in FormData : RegisterStart(c, formData)
    \/ RegisterCheckAvailable(c)
    \/ RegisterCreateAccount(c)
    \/ RegisterCreateTeam(c)
    \/ RegisterCreateMembership(c)
    \/ RegisterCreateTenant(c)
    \/ RegisterCreateOrganization(c)
    \/ RegisterCreateUser(c)
    \/ RegisterCleanup(c)
    \/ RegisterCreateSession(c)

(***************************************************************************)
(* Requests: the Host header reaches middleware, getSubdomain and          *)
(* getTenantContext                                                        *)
(***************************************************************************)
HostAtoms == {"localhost", "belegboost", "de", "www", "admin", "mueller",
              ".", ":3000"}

RECURSIVE SeqsUpTo(_, _)
\* all sequences over S of length at most n
SeqsUpTo(S, n) ==
    IF n = 0 THEN {<<>>}
    ELSE LET shorter == SeqsUpTo(S, n - 1)
         IN  shorter \cup {Append(s, a) : s \in shorter, a \in S}

\* every Host header of at most MaxHostLen atoms
Hosts == SeqsUpTo(HostAtoms, MaxHostLen)

\* the hosts of the registered sites and of the root site
SiteHosts ==
    {<<"mueller", ".", "belegboost", ".", "de">>,
     <<"schmidt", ".", "belegboost", ".", "de">>,
     <<"belegboost", ".", "de">>}

Paths == {Str("/"), <<"/", "dashboard">>}

\* a request passes through middleware
MiddlewareRequest(hostname, pathname) ==
    /\ req' = [op |-> "middleware", host |-> hostname, path |-> pathname,
               credential |-> NoId,
               out |-> middleware(hostname, pathname)]
    /\ UNCHANGED <<store, calls, pc, form, loc, result, cookie>>

\* a server component calls getSubdomain
GetSubdomainRequest(hostname) ==
    /\ req' = [op |-> "getSubdomain", host |-> hostname, path |-> EmptyStr,
               credential |-> NoId,
               out |-> getSubdomain(hostname)]
    /\ UNCHANGED <<store, calls, pc, form, loc, result, cookie>>

\* a server action of caller c calls getTenantContext
GetTenantContextRequest(c, hostname) ==
    /\ req' = [op |-> "getTenantContext", host |-> hostname,
               path |-> EmptyStr, credential |-> cookie[c],
               out |-> getTenantContext(hostname)]
    /\ UNCHANGED <<store, calls, pc, form, loc, result, cookie>>

(***************************************************************************)
(* Data access layer: the exported functions for organizations, users and *)
(* tenants.  Each is a server function of a 'use server' module, called    *)
(* with the arguments its caller chooses.                                  *)
(***************************************************************************)
\* documents[0] of a query without an order: the document created first
first(docs) == CHOOSE d \in docs : \A e \in docs : d.id[2] <= e.id[2]

\* the documents docs in the order of Query.orderDesc('$createdAt')
RECURSIVE orderDesc(_)
orderDesc(docs) ==
    IF docs = {}
    THEN <<>>
    ELSE LET newest == CHOOSE d \in docs : \A e \in docs : e.id[2] <= d.id[2]
         IN  <<newest>> \o orderDesc(docs \ {newest})

\* Query.offset(offset) and Query.limit(limit) applied to ordered documents
page(documents, limit, offset) ==
    SubSeq(documents, offset + 1, Min({Len(documents), offset + limit}))

\* databases.getDocument: the document, or null where the function catches
\* the error of a missing document or of a failing store
getDocument(docs, id, dbOk) ==
    IF dbOk /\ \E d \in docs : d.id = id
    THEN Some(CHOOSE d \in docs : d.id = id)
    ELSE Null

\* getOrganizationById
getOrganizationById(organizationId, dbOk) ==
    getDocument(organizations, organizationId, dbOk)

\* getUserById
getUserById(userId, dbOk) == getDocument(users, userId, dbOk)

\* getTenantById
getTenantById(tenantId, dbOk) == getDocument(tenants, tenantId, dbOk)

\* listOrganizations, had it dropped the tenant filter when a type is given
listOrganizationsByTypeOnly(tenantId, type, dbOk) ==
    IF ~ dbOk
    THEN <<>>
    ELSE orderDesc({o \in organizations :
                        IF type = "" THEN o.tenant_id = tenantId
                                     ELSE o.type = type})

\* listOrganizations: type "" stands for the omitted optional argument
listOrganizations(tenantId, type, dbOk) ==
    IF ~ dbOk
    THEN <<>>
    ELSE orderDesc({o \in organizations :
                        /\ o.tenant_id = tenantId
                        /\ type # "" => o.type = type})

\* getAdvisorFirmOrganization
getAdvisorFirmOrganization(tenantId, dbOk) ==
    LET documents == {o \in organizations :
                          o.tenant_id = tenantId /\ o.type = "advisor"}
    IN  IF dbOk /\ documents # {} THEN Some(first(documents)) ELSE Null

\* listTenantUsers
listTenantUsers(tenantId, limit, offset, dbOk) ==
    IF ~ dbOk
    THEN <<>>
    ELSE page(orderDesc({u \in users : u.tenant_id = tenantId}),
              limit, offset)

\* getUserByEmail
getUserByEmail(email, tenantId, dbOk) ==
    LET documents == {u \in users :
                          u.email = email /\ u.tenant_id = tenantId}
    IN  IF dbOk /\ documents # {} THEN Some(first(documents)) ELSE Null

\* the document createTenant stores
createTenant(id, data) ==
    [id |-> id, team_id |-> data.teamId, subdomain |-> data.subdomain,
     owner_email |-> data.ownerEmail, status |-> "active"]

\* the document createOrganization stores
createOrganization(id, data) ==
    [id |-> id, tenant_id |-> data.tenantId, type |-> data.type,
     status |-> "active"]

\* the document createUser stores
createUser(id, data) ==
    [id |-> id, tenant_id |-> data.tenantId,
     organization_id |-> data.organizationId,
     appwrite_user_id |-> data.appwriteUserId, role |-> data.role,
     email |-> data.email, status |-> "active"]

UserRoles == {"owner", "advisor", "client_admin", "client_employee"}

\* isClientRole
isClientRole(role) == role \in {"client_admin", "client_employee"}

\* the TenantContext of the caller whose user record is u
TenantContext(u) ==
    [tenantId |-> u.tenant_id, userId |-> u.id,
     organizationId |-> u.organization_id, role |-> u.role]

\* the caller without a user record (registration creates the first
\* records of a tenant before any user of it exists)
NoContext ==
    [tenantId |-> NoId, userId |-> NoId, organizationId |-> NoId,
     role |-> "none"]

\* the contexts of the callers that have a user record
UserContexts == {TenantContext(u) : u \in users}

IdsOf(docs) == {d.id : d \in docs}

\* at most MaxDocs documents are created
CanCreate ==
    Cardinality(tenants) + Cardinality(organizations) + Cardinality(users)
        < MaxDocs

\* the call of a data-access function: its name, the context of its
\* caller, its arguments and what it returned
DalCall(op, ctx, args, out) ==
    [op |-> op, host |-> EmptyStr, path |-> EmptyStr, credential |-> NoId,
     ctx |-> ctx, args |-> args, out |-> out]

\* a read leaves everything but the call record unchanged
DalRead(op, ctx, args, out) ==
    /\ req' = DalCall(op, ctx, args, out)
    /\ UNCHANGED <<store, calls, pc, form, loc, result, cookie>>

GetOrganizationByIdCall(ctx, organizationId, dbOk) ==
    DalRead("getOrganizationById", ctx, [id |-> organizationId],
            getOrganizationById(organizationId, dbOk))

GetUserByIdCall(ctx, userId, dbOk) ==
    DalRead("getUserById", ctx, [id |-> userId], getUserById(userId, dbOk))

GetTenantByIdCall(ctx, tenantId, dbOk) ==
    DalRead("getTenantById", ctx, [id |-> tenantId],
            getTenantById(tenantId, dbOk))

ListOrganizationsCall(ctx, tenantId, type, dbOk) ==
    DalRead("listOrganizations", ctx, [tenantId |-> tenantId, type |-> type],
            listOrganizations(tenantId, type, dbOk))

GetAdvisorFirmOrganizationCall(ctx, tenantId, dbOk) ==
    DalRead("getAdvisorFirmOrganization", ctx, [tenantId |-> tenantId],
            getAdvisorFirmOrganization(tenantId, dbOk))

ListTenantUsersCall(ctx, tenantId, limit, offset, dbOk) ==
    DalRead("listTenantUsers", ctx,
            [tenantId |-> tenantId, limit |-> limit, offset |-> offset],
            listTenantUsers(tenantId, limit, offset, dbOk))

GetUserByEmailCall(ctx, email, tenantId, dbOk) ==
    DalRead("getUserByEmail", ctx, [email |-> email, tenantId |-> tenantId],
            getUserByEmail(email, tenantId, dbOk))

\* createTenant: the document is rejected (the function throws) when the
\* store fails or the unique index is violated
CreateTenantCall(data, dbOk) ==
    /\ CanCreate
    /\ LET tenant == createTenant(<<"tenant", Cardinality(tenants) + 1>>,
                                  data)
       IN  IF dbOk /\ subdomainUnique(data.subdomain)
           THEN /\ tenants' = tenants \cup {tenant}
                /\ req' = DalCall("createTenant", NoContext, data,
                                  Some(tenant))
           ELSE /\ tenants' = tenants
                /\ req' = DalCall("createTenant", NoContext, data, Null)
    /\ UNCHANGED <<organizations, users, accounts, teams, memberships,
                   sessions, calls, pc, form, loc, result, cookie>>

\* createOrganization, called by a caller with context ctx
CreateOrganizationCall(ctx, data, dbOk) ==
    /\ CanCreate
    /\ LET organization ==
               createOrganization(
                   <<"organization", Cardinality(organizations) + 1>>, data)
       IN  IF dbOk
           THEN /\ organizations' = organizations \cup {organization}
                /\ req' = DalCall("createOrganization", ctx, data,
                                  Some(organization))
           ELSE /\ organizations' = organizations
                /\ req' = DalCall("createOrganization", ctx, data, Null)
    /\ UNCHANGED <<tenants, users, accounts, teams, memberships,
                   sessions, calls, pc, form, loc, result, cookie>>

\* createUser, called by a caller with context ctx
CreateUserCall(ctx, data, dbOk) ==
    /\ CanCreate
    /\ LET user == createUser(<<"user", Cardinality(users) + 1>>, data)
       IN  IF dbOk
           THEN /\ users' = users \cup {user}
                /\ req' = DalCall("createUser", ctx, data, Some(user))
           ELSE /\ users' = users
                /\ req' = DalCall("createUser", ctx, data, Null)
    /\ UNCHANGED <<tenants, organizations, accounts, teams, memberships,
                   sessions, calls, pc, form, loc, result, cookie>>

\* the arguments callers pass
DalEmails == {Str("anna@x.de")}

TenantData ==
    [teamId : {<<"team", 1>>}, subdomain : {Str("mueller"), Str("schmidt")},
     ownerEmail : DalEmails]

OrganizationData == [tenantId : IdsOf(tenants), type : {"advisor", "client"}]

UserData ==
    [tenantId : IdsOf(tenants), organizationId : IdsOf(organizations),
     appwriteUserId : {<<"account", 1>>}, role : UserRoles,
     email : DalEmails]

Limits == {1, 25}

Offsets == {0, 1}

DalReadOps ==
    {"getOrganizationById", "getUserById", "getTenantById",
     "listOrganizations", "getAdvisorFirmOrganization", "listTenantUsers",
     "getUserByEmail"}

\* a read has been observed
Observed == req.op \in DalReadOps

(***************************************************************************)
(* Session resolution: getCurrentUser and validateSession read the cookie  *)
(* the browser sends                                                       *)
(***************************************************************************)
\* a cookie value the provider has never issued
INVALID_SESSION == <<"session", 0>>

\* the cookie values a request may carry: no cookie, the cookie of a
\* caller, or an invalid one
Credentials == {cookie[c] : c \in Clients} \cup {INVALID_SESSION}

\* the provider lets session s expire; the cookie that names it stays
SessionExpires(s) ==
    /\ sessions' = sessions \ {s}
    /\ UNCHANGED <<tenants, organizations, users, accounts, teams,
                   memberships, calls, pc, form, loc, result, cookie, req>>

\* a request with cookie value credential calls getCurrentUser
GetCurrentUserRequest(credential, providerOk) ==
    /\ req' = [op |-> "getCurrentUser", host |-> EmptyStr,
               path |-> EmptyStr, credential |-> credential,
               providerOk |-> providerOk,
               out |-> getCurrentUser(credential, providerOk)]
    /\ UNCHANGED <<store, calls, pc, form, loc, result, cookie>>

\* a request with cookie value credential calls validateSession
ValidateSessionRequest(credential, providerOk) ==
    /\ req' = [op |-> "validateSession", host |-> EmptyStr,
               path |-> EmptyStr, credential |-> credential,
               providerOk |-> providerOk,
               out |-> Some(validateSession(credential, providerOk))]
    /\ UNCHANGED <<store, calls, pc, form, loc, result, cookie>>

(***************************************************************************)
(* login, deleteSession and logout                                         *)
(***************************************************************************)
ERR_INVALID_CREDENTIALS == "E-Mail-Adresse oder Passwort ist falsch"

ERR_LOGIN == "Fehler beim Anmelden"

\* the login form: passwordOk says whether the password is the one of the
\* account with that e-mail
LoginFormData ==
    [email : FormEmails, passwordOk : BOOLEAN, fieldsValid : BOOLEAN]

\* the call of login or deleteSession by caller c: the cookie it came
\* with, what the identity provider did and what the call returned
AuthCall(op, c, provider, out) ==
    [op |-> op, client |-> c, credential |-> cookie[c],
     provider |-> provider, out |-> out]

\* login, had it reported every failure as wrong credentials
loginOneError(c, formData) ==
    /\ IF ~ formData.fieldsValid
       THEN /\ req' = AuthCall("login", c, "none", Failure(ERR_VALIDATION))
            /\ UNCHANGED <<sessions, cookie, calls>>
       ELSE \E providerOk \in BOOLEAN, cookieOk \in BOOLEAN :
              IF ~ providerOk
              THEN /\ req' = AuthCall("login", c, "failed",
                                      Failure(ERR_INVALID_CREDENTIALS))
                   /\ UNCHANGED <<sessions, cookie, calls>>
              ELSE IF ~ (/\ formData.passwordOk
                         /\ \E a \in accounts :
                                a.email = toLowerCase(formData.email))
              THEN /\ req' = AuthCall("login", c, "rejected",
                                      Failure(ERR_INVALID_CREDENTIALS))
                   /\ UNCHANGED <<sessions, cookie, calls>>
              ELSE LET a == CHOOSE a \in accounts :
                                a.email = toLowerCase(formData.email)
                       id == <<"session", calls + 1>>
                   IN  /\ calls < MaxCalls
                       /\ calls' = calls + 1
                       /\ sessions' = sessions \cup
                               {[id |-> id, userId |-> a.id]}
                       /\ IF cookieOk
                          THEN /\ cookie' = [cookie EXCEPT ![c] = id]
                               /\ req' = AuthCall("login", c, "accepted",
                                                  Success(EmptyStr))
                          ELSE /\ UNCHANGED cookie
                               /\ req' = AuthCall("login", c, "accepted",
                                             Failure(ERR_INVALID_CREDENTIALS))
    /\ UNCHANGED <<tenants, organizations, users, accounts, teams,
                   memberships, pc, form, loc, result>>

\* login: loginSchema.parse, account.createEmailPasswordSession,
\* createSessionCookie.  The provider accepts the credentials, rejects
\* them with 401, or fails otherwise; a new session gets the number of the
\* call as its id.
login(c, formData) ==
    /\ IF ~ formData.fieldsValid
       THEN /\ req' = AuthCall("login", c, "none", Failure(ERR_VALIDATION))
            /\ UNCHANGED <<sessions, cookie, calls>>
       ELSE \E providerOk \in BOOLEAN, cookieOk \in BOOLEAN :
              IF ~ providerOk
              THEN /\ req' = AuthCall("login", c, "failed",
                                      Failure(ERR_LOGIN))
                   /\ UNCHANGED <<sessions, cookie, calls>>
              ELSE IF ~ (/\ formData.passwordOk
                         /\ \E a \in accounts :
                                a.email = toLowerCase(formData.email))
              THEN /\ req' = AuthCall("login", c, "rejected",
                                      Failure(ERR_INVALID_CREDENTIALS))
                   /\ UNCHANGED <<sessions, cookie, calls>>
              ELSE LET a == CHOOSE a \in accounts :
                                a.email = toLowerCase(formData.email)
                       id == <<"session", calls + 1>>
                   IN  /\ calls < MaxCalls
                       /\ calls' = calls + 1
                       /\ sessions' = sessions \cup
                               {[id |-> id, userId |-> a.id]}
                       /\ IF cookieOk
                          THEN /\ cookie' = [cookie EXCEPT ![c] = id]
                               /\ req' = AuthCall("login", c, "accepted",
                                                  Success(EmptyStr))
                          ELSE /\ UNCHANGED cookie
                               /\ req' = AuthCall("login", c, "accepted",
                                                  Failure(ERR_LOGIN))
    /\ UNCHANGED <<tenants, organizations, users, accounts, teams,
                   memberships, pc, form, loc, result>>

\* deleteSession, had it kept the cookie when the provider call fails
deleteSessionNoFinally(c) ==
    /\ \E providerOk \in BOOLEAN :
        IF cookie[c] # NoId /\ ~ providerOk
        THEN /\ UNCHANGED <<sessions, cookie>>
             /\ req' = AuthCall("deleteSession", c, "failed", Null)
        ELSE /\ sessions' = {s \in sessions : s.id # cookie[c]}
             /\ cookie' = [cookie EXCEPT ![c] = NoId]
             /\ req' = AuthCall("deleteSession", c,
                                IF cookie[c] = NoId THEN "none"
                                                    ELSE "accepted", Null)
    /\ UNCHANGED <<tenants, organizations, users, accounts, teams,
                   memberships, calls, pc, form, loc, result>>

\* deleteSession: account.deleteSession('current') when there is a cookie
\* (its failure is caught), and deleteSessionCookie in the finally block
deleteSession(c) ==
    /\ \E providerOk \in BOOLEAN :
        IF cookie[c] # NoId /\ ~ providerOk
        THEN /\ UNCHANGED sessions
             /\ req' = AuthCall("deleteSession", c, "failed", Null)
        ELSE /\ sessions' = {s \in sessions : s.id # cookie[c]}
             /\ req' = AuthCall("deleteSession", c,
                                IF cookie[c] = NoId THEN "none"
                                                    ELSE "accepted", Null)
    /\ cookie' = [cookie EXCEPT ![c] = NoId]
    /\ UNCHANGED <<tenants, organizations, users, accounts, teams,
                   memberships, calls, pc, form, loc, result>>

\* logout: deleteSession, then the redirect to /login
logout(c) == deleteSession(c)

(***************************************************************************)
(* Checklist helpers                                                       *)
(***************************************************************************)
ChecklistStatus == {"draft", "active", "completed", "archived"}

\* the checklists with at most MaxItems items; completed_items counts the
\* green ones among the total_items
Checklists ==
    {ck \in [total_items : 0..MaxItems, completed_items : 0..MaxItems,
             status : ChecklistStatus] :
         ck.completed_items <= ck.total_items}

\* the fractions n / d whose product with 100 is k + 0.5 exactly while the
\* double computed by (n / d) * 100 lies just below it (d up to 400)
BelowHalfDoubles ==
    {<<23, 40>>, <<29, 200>>, <<57, 200>>, <<113, 200>>}

\* the double (completed / total) * 100 is below k + 0.5 although the
\* exact value is k + 0.5
BelowHalf(completed, total) ==
    \E f \in BelowHalfDoubles : completed * f[2] = total * f[1]

\* Math.round((completed / total) * 100) for total > 0: halves go up
MathRound(completed, total) ==
    IF BelowHalf(completed, total)
    THEN (100 * completed) \div total
    ELSE (200 * completed + total) \div (2 * total)

\* calculateProgress with Math.floor in place of Math.round
calculateProgressFloor(checklist) ==
    IF checklist.total_items = 0
    THEN 0
    ELSE (100 * checklist.completed_items) \div checklist.total_items

\* calculateProgress
calculateProgress(checklist) ==
    IF checklist.total_items = 0
    THEN 0
    ELSE MathRound(checklist.completed_items, checklist.total_items)

\* isChecklistComplete
isChecklistComplete(checklist) ==
    /\ checklist.total_items > 0
    /\ checklist.completed_items = checklist.total_items

\* a checklist document is at hand; neither helper has been applied yet
ReadChecklist(checklist) ==
    /\ req' = [op |-> "checklist", checklist |-> checklist,
               progress |-> Null, complete |-> Null]
    /\ UNCHANGED <<store, calls, pc, form, loc, result, cookie>>

\* calculateProgress is applied to the checklist at hand
CalculateProgressCall ==
    /\ req.op = "checklist"
    /\ req.progress = Null
    /\ req' = [req EXCEPT !.progress = Some(calculateProgress(req.checklist))]
    /\ UNCHANGED <<store, calls, pc, form, loc, result, cookie>>

\* isChecklistComplete is applied to the checklist at hand
IsChecklistCompleteCall ==
    /\ req.op = "checklist"
    /\ req.complete = Null
    /\ req' = [req EXCEPT
                   !.complete = Some(isChecklistComplete(req.checklist))]
    /\ UNCHANGED <<store, calls, pc, form, loc, result, cookie>>

(***************************************************************************)
(* Specifications                                                          *)
(***************************************************************************)
\* registration by concurrent callers
Next == \E c \in Clients : registerTaxAdvisor(c)

Spec == Init /\ [][Next]_vars

\* registration by concurrent callers, and context requests to the sites
NextContext ==
    \/ \E c \in Clients : registerTaxAdvisor(c)
    \/ \E c \in Clients, h \in SiteHosts : GetTenantContextRequest(c, h)

SpecContext == Init /\ [][NextContext]_vars

\* one request with any bounded Host header, against the initial store
NextRouter ==
    \/ req = NoReq /\ \E h \in Hosts, p \in Paths : MiddlewareRequest(h, p)
    \/ req = NoReq /\ \E h \in Hosts : GetSubdomainRequest(h)
    \/ req = NoReq /\ \E c \in Clients, h \in Hosts :
                            GetTenantContextRequest(c, h)

SpecRouter == Init /\ [][NextRouter]_vars

\* registration calls that submit a reserved subdomain, in any spelling
ReservedFormData ==
    [subdomain : RESERVED_SUBDOMAINS \cup {Str("ADMIN")},
     email : FormEmails, fieldsValid : BOOLEAN]

NextReserved ==
    \E c \in Clients, formData \in ReservedFormData :
        RegisterStart(c, formData)

SpecReserved == Init /\ [][NextReserved]_vars

\* calls of the data-access functions: documents are created, then one
\* read by a caller with a user record is observed
NextDal ==
    \/ ~ Observed /\ \E data \in TenantData, dbOk \in BOOLEAN :
           CreateTenantCall(data, dbOk)
    \/ ~ Observed /\ \E ctx \in UserContexts \cup {NoContext},
                        data \in OrganizationData, dbOk \in BOOLEAN :
           CreateOrganizationCall(ctx, data, dbOk)
    \/ ~ Observed /\ \E ctx \in UserContexts \cup {NoContext},
                        data \in UserData, dbOk \in BOOLEAN :
           CreateUserCall(ctx, data, dbOk)
    \/ ~ Observed /\ \E ctx \in UserContexts, dbOk \in BOOLEAN,
                        id \in IdsOf(organizations) \cup {NoId} :
           GetOrganizationByIdCall(ctx, id, dbOk)
    \/ ~ Observed /\ \E ctx \in UserContexts, dbOk \in BOOLEAN,
                        id \in IdsOf(users) \cup {NoId} :
           GetUserByIdCall(ctx, id, dbOk)
    \/ ~ Observed /\ \E ctx \in UserContexts, dbOk \in BOOLEAN,
                        id \in IdsOf(tenants) \cup {NoId} :
           GetTenantByIdCall(ctx, id, dbOk)
    \/ ~ Observed /\ \E ctx \in UserContexts, dbOk \in BOOLEAN,
                        id \in IdsOf(tenants),
                        type \in {"", "advisor", "client"} :
           ListOrganizationsCall(ctx, id, type, dbOk)
    \/ ~ Observed /\ \E ctx \in UserContexts, dbOk \in BOOLEAN,
                        id \in IdsOf(tenants) :
           GetAdvisorFirmOrganizationCall(ctx, id, dbOk)
    \/ ~ Observed /\ \E ctx \in UserContexts, dbOk \in BOOLEAN,
                        id \in IdsOf(tenants),
                        limit \in Limits, offset \in Offsets :
           ListTenantUsersCall(ctx, id, limit, offset, dbOk)
    \/ ~ Observed /\ \E ctx \in UserContexts, dbOk \in BOOLEAN,
                        id \in IdsOf(tenants), email \in DalEmails :
           GetUserByEmailCall(ctx, email, id, dbOk)

SpecDal == Init /\ [][NextDal]_vars

\* registrations of one caller, expiring sessions, and session resolution
\* for requests with any cookie value
NextSession ==
    \/ registerTaxAdvisor("c1")
    \/ \E s \in sessions : SessionExpires(s)
    \/ \E credential \in Credentials, providerOk \in BOOLEAN :
           GetCurrentUserRequest(credential, providerOk)
    \/ \E credential \in Credentials, providerOk \in BOOLEAN :
           ValidateSessionRequest(credential, providerOk)

SpecSession == Init /\ [][NextSession]_vars

\* the checklist helpers applied to one checklist of any bounded size
NextChecklist ==
    \/ req = NoReq /\ \E checklist \in Checklists : ReadChecklist(checklist)
    \/ CalculateProgressCall
    \/ IsChecklistCompleteCall

SpecChecklist == Init /\ [][NextChecklist]_vars

\* the registration forms of the caller who registers before logging in
AuthFormData ==
    [subdomain : {Str("mueller")}, email : FormEmails, fieldsValid : {TRUE}]

\* registrations of one caller, logins and logouts of every caller, and
\* session resolution for the cookie of a caller
NextAuth ==
    \/ \E formData \in AuthFormData : RegisterStart("c1", formData)
    \/ RegisterCheckAvailable("c1")
    \/ RegisterCreateAccount("c1")
    \/ RegisterCreateTeam("c1")
    \/ RegisterCreateMembership("c1")
    \/ RegisterCreateTenant("c1")
    \/ RegisterCreateOrganization("c1")
    \/ RegisterCreateUser("c1")
    \/ RegisterCleanup("c1")
    \/ RegisterCreateSession("c1")
    \/ \E c \in Clients, formData \in LoginFormData : login(c, formData)
    \/ \E c \in Clients : logout(c)
    \/ \E c \in Clients, providerOk \in BOOLEAN :
           GetCurrentUserRequest(cookie[c], providerOk)
    \/ \E c \in Clients, providerOk \in BOOLEAN :
           ValidateSessionRequest(cookie[c], providerOk)

SpecAuth == Init /\ [][NextAuth]_vars

(***************************************************************************)
(* Properties                                                              *)
(***************************************************************************)
\* a getTenantContext request has just been answered
ContextAnswered == req' # req /\ req'.op = "getTenantContext"

\* the identity the credential of request r belongs to (or null)
Principal(r) == getCurrentUser(r.credential, TRUE)

\* identity a has a membership (user record) in tenant t
IsMemberOf(a, t) ==
    \E u \in users : u.appwrite_user_id = a /\ u.tenant_id = t.id

\* request r goes to the subdomain of tenant t2 and carries the session of
\* a user who is a member of another tenant t1 and not of t2
CrossTenantRequest(r, t1, t2) ==
    /\ t1 # t2
    /\ contextSubdomain(r.host) = t2.subdomain
    /\ ~ Principal(r).isNull
    /\ IsMemberOf(Principal(r).value, t1)
    /\ ~ IsMemberOf(Principal(r).value, t2)

\* C1: a request to T2's subdomain by a user who is a member only of T1
\* never yields a context; it fails with TenantMismatch or
\* MembershipNotFound.  (A request leaves the store unchanged, so the
\* store is read in the state before the answer.)
C1_CrossTenantIsolation ==
    [][ContextAnswered =>
          \A t1 \in tenants, t2 \in tenants :
              CrossTenantRequest(req', t1, t2) =>
                  /\ ~ req'.out.ok
                  /\ req'.out.error \in
                        {"TenantMismatch", "MembershipNotFound"}]_vars

\* C2: every context getTenantContext returns carries the identifier of
\* the tenant the directory holds for the subdomain and the identifier and
\* role of the caller's membership record; it is never a placeholder.
C2_ContextIsReal ==
    [][(ContextAnswered /\ req'.out.ok) =>
          \E t \in tenants, u \in users :
              /\ t.subdomain = req'.out.subdomain
              /\ req'.out.tenantId = t.id
              /\ ~ Principal(req').isNull
              /\ u.appwrite_user_id = Principal(req').value
              /\ req'.out.userId = u.id
              /\ req'.out.role = u.role]_vars

\* C3: a request without a valid session never gets a context; when its
\* host names a tenant, it fails with Unauthenticated.
C3_UnauthenticatedFails ==
    [][(ContextAnswered /\ ~ validateSession(req'.credential, TRUE)) =>
          /\ ~ req'.out.ok
          /\ contextSubdomain(req'.host) # EmptyStr =>
                req'.out.error = "Unauthenticated"]_vars

\* C4: no two tenant records have the same subdomain, whatever the
\* interleaving of the registerTaxAdvisor calls.
C4_SubdomainUnique ==
    \A t1 \in tenants, t2 \in tenants :
        t1.subdomain = t2.subdomain => t1 = t2

\* two calls submitted the same subdomain and both passed the availability
\* check; one created the tenant, the other's createTenant was rejected
C4_Witness ==
    \E c1 \in Clients, c2 \in Clients :
        /\ c1 # c2
        /\ loc[c1].subdomain = loc[c2].subdomain
        /\ \E t \in tenants : t.id = loc[c1].tenant
        /\ loc[c2].error = ERR_TENANT
        /\ result[c2] = Failure(ERR_TENANT)

\* C5: when registerTaxAdvisor returns the organization-creation failure,
\* the tenant it created can no longer be resolved by its subdomain.
C5_TenantRemovedAfterOrgFailure ==
    \A c \in Clients :
        (result[c].returned /\ result[c].error = ERR_ORGANIZATION) =>
            getTenantBySubdomain(loc[c].subdomain, TRUE).isNull

\* C6: when registerTaxAdvisor returns the user-record failure, neither
\* the tenant nor the organization it created remains in the store.
C6_CompensatedAfterUserFailure ==
    \A c \in Clients :
        (result[c].returned /\ result[c].error = ERR_USER) =>
            /\ ~ \E t \in tenants : t.id = loc[c].tenant
            /\ ~ \E o \in organizations : o.tenant_id = loc[c].tenant

\* caller c has just entered registerTaxAdvisor
RegisterEntered(c) == loc'[c].n # loc[c].n

\* C7: a registerTaxAdvisor call that submits a reserved subdomain returns
\* a failure before its first await: no directory lookup is made and the
\* store is unchanged.
C7_ReservedRejected ==
    [][\A c \in Clients :
          (RegisterEntered(c) /\
           toLowerCase(form'[c].subdomain) \in RESERVED_SUBDOMAINS) =>
              /\ pc'[c] = "done"
              /\ result'[c].returned
              /\ ~ result'[c].success
              /\ store' = store]_vars

\* a call with a well-formed reserved subdomain was rejected as reserved
C7_Witness ==
    \E c \in Clients :
        /\ form[c].subdomain \in RESERVED_SUBDOMAINS
        /\ form[c].fieldsValid
        /\ result[c] = Failure(ERR_RESERVED)

\* the first dot-separated label of the Host header of the last request
FirstLabel == split(req.host)[1]

\* middleware let the last request pass through unchanged
PassedThrough == req.out = [kind |-> "next", pathname |-> req.path]

\* middleware rewrote the last request into the namespace of slug
RewrittenTo(slug) ==
    req.out = [kind |-> "rewrite",
               pathname |-> TENANTS_PREFIX \o slug \o req.path]

\* C8: a host whose first label is a reserved subdomain is never resolved
\* to a tenant by middleware, getSubdomain or getTenantContext.
C8_ReservedNeverRouted ==
    FirstLabel \in RESERVED_SUBDOMAINS =>
        /\ req.op = "middleware" => PassedThrough
        /\ req.op = "getSubdomain" => req.out.isNull
        /\ req.op = "getTenantContext" => ~ req.out.ok

\* the host without its port suffix
WithoutPort(h) ==
    IF h # <<>> /\ h[Len(h)] = ":3000" THEN SubSeq(h, 1, Len(h) - 1) ELSE h

\* C9: for a host without the local-development token, middleware
\* resolves a slug exactly when the host (port aside) ends with the root
\* domain, has three labels and its first label is not www (nor empty);
\* the slug is the first label, and every other host passes through.
C9_ProductionHosts ==
    (req.op = "middleware" /\ ~ includes(req.host, LOCALHOST)) =>
        LET parts == split(WithoutPort(req.host))
        IN  IF /\ endsWith(WithoutPort(req.host), ROOT_DOMAIN)
               /\ Len(parts) = 3
               /\ parts[1] # WWW
               /\ parts[1] # EmptyStr
            THEN RewrittenTo(parts[1])
            ELSE PassedThrough

\* C10 as stated: for a host with the local-development token, the first
\* label is the slug unless it is localhost, with or without a port (an
\* empty first label counts as no slug).
C10_FirstLabelIsSlug ==
    (req.op = "middleware" /\ includes(req.host, LOCALHOST)) =>
        IF FirstLabel \in {LOCALHOST, LOCALHOST \o Str(":3000"), EmptyStr}
        THEN PassedThrough
        ELSE RewrittenTo(FirstLabel)

\* C10 as amended: for a host with the local-development token, the first
\* label is the slug when the host has a dot and the label is neither
\* empty nor exactly localhost; every other such host passes through.
C10_LocalHosts ==
    (req.op = "middleware" /\ includes(req.host, LOCALHOST)) =>
        IF /\ DotIndexes(req.host) # {}
           /\ FirstLabel # LOCALHOST
           /\ FirstLabel # EmptyStr
        THEN RewrittenTo(FirstLabel)
        ELSE PassedThrough

\* a request to mueller.localhost:3000 was rewritten
C10_Witness ==
    /\ req.op = "middleware"
    /\ req.host = <<"mueller", ".", "localhost", ":3000">>
    /\ RewrittenTo(Str("mueller"))

\* host h carries no port
PortFree(h) == \A i \in DOMAIN h : h[i] # ":3000"

\* the Host header of the last request is a port-free host followed by a
\* port
HostWithPort ==
    /\ req.host # <<>>
    /\ req.host[Len(req.host)] = ":3000"
    /\ PortFree(WithoutPort(req.host))

\* C11: tenant resolution is independent of the port suffix: middleware
\* and getSubdomain answer a host with a port exactly as they answer the
\* same host without the port (the same slug, or none for both).
C11_PortIndependent ==
    HostWithPort =>
        /\ req.op = "middleware" =>
               req.out = middleware(WithoutPort(req.host), req.path)
        /\ req.op = "getSubdomain" =>
               req.out = getSubdomain(WithoutPort(req.host))

\* getSubdomain resolved mueller.localhost:3000 to mueller
C11_Witness ==
    /\ req.op = "getSubdomain"
    /\ req.host = <<"mueller", ".", "localhost", ":3000">>
    /\ req.out = Some(Str("mueller"))

\* C12: middleware has two outcomes only: when it resolves a slug the
\* request is rewritten to /tenants/<slug> followed by the unchanged
\* path, and when it resolves none the request passes through with its
\* path unmodified.
C12_RewriteOrPassThrough ==
    req.op = "middleware" =>
        /\ req.out.kind \in {"next", "rewrite"}
        /\ middlewareSubdomain(req.host) # EmptyStr =>
               RewrittenTo(middlewareSubdomain(req.host))
        /\ middlewareSubdomain(req.host) = EmptyStr => PassedThrough

\* a request for /dashboard on mueller.belegboost.de was rewritten to
\* /tenants/mueller/dashboard
C12_Witness ==
    /\ req.op = "middleware"
    /\ req.host = <<"mueller", ".", "belegboost", ".", "de">>
    /\ req.path = <<"/", "dashboard">>
    /\ req.out = [kind |-> "rewrite",
                  pathname |-> <<"/tenants/", "mueller", "/", "dashboard">>]

\* the records the last data-access call returned
Returned ==
    IF req.op \in {"listOrganizations", "listTenantUsers"}
    THEN {req.out[i] : i \in DOMAIN req.out}
    ELSE IF req.out.isNull THEN {} ELSE {req.out.value}

\* the tenant a record belongs to
TenantOf(d) == IF d.id[1] = "tenant" THEN d.id ELSE d.tenant_id

\* the organization a record belongs to
OrganizationOf(d) ==
    IF d.id[1] = "organization" THEN d.id ELSE d.organization_id

\* C13: getOrganizationById, getUserById and getTenantById return a record
\* only if the record's tenant is the tenant of the caller's context; a
\* record of another tenant is reported as null.
C13_GetByIdScoped ==
    req.op \in {"getOrganizationById", "getUserById", "getTenantById"} =>
        \A d \in Returned : TenantOf(d) = req.ctx.tenantId

\* C14: listOrganizations, getAdvisorFirmOrganization, listTenantUsers and
\* getUserByEmail return only records whose tenant_id is the tenant id of
\* the call, whatever type, limit or offset is supplied.
C14_ListScoped ==
    req.op \in {"listOrganizations", "getAdvisorFirmOrganization",
                "listTenantUsers", "getUserByEmail"} =>
        \A d \in Returned : d.tenant_id = req.args.tenantId

\* listOrganizations with a type filter returned client organizations of
\* the tenant asked for while another tenant has a client organization too
C14_Witness ==
    /\ req.op = "listOrganizations"
    /\ req.args.type = "client"
    /\ Returned # {}
    /\ \E o \in organizations :
           o.type = "client" /\ o.tenant_id # req.args.tenantId

\* C15: the record persisted by createOrganization or createUser carries
\* the tenant_id (and, for a user, the organization_id) of the caller's
\* context, whatever identifiers the caller-supplied data contain.
C15_CreateFromContext ==
    (/\ req.op \in {"createOrganization", "createUser"}
     /\ req.ctx # NoContext
     /\ ~ req.out.isNull) =>
        /\ req.out.value.tenant_id = req.ctx.tenantId
        /\ req.op = "createUser" =>
               req.out.value.organization_id = req.ctx.organizationId

\* C16: a caller with a client role in organization O1 never obtains a
\* record of another organization through listTenantUsers, getUserById,
\* listOrganizations or getOrganizationById.
C16_ClientOrgScoped ==
    (/\ req.op \in {"listTenantUsers", "getUserById", "listOrganizations",
                    "getOrganizationById"}
     /\ isClientRole(req.ctx.role)) =>
        \A d \in Returned : OrganizationOf(d) = req.ctx.organizationId

\* the tenant, organization and user records of caller c's registration
\* exist
RecordsOf(c) ==
    /\ \E t \in tenants : t.id = loc[c].tenant
    /\ \E o \in organizations :
           o.id = loc[c].organization /\ o.tenant_id = loc[c].tenant
    /\ \E u \in users :
           /\ u.appwrite_user_id = loc[c].appwriteUser
           /\ u.organization_id = loc[c].organization

\* C17: when tenant, organization and user were created and the session
\* creation or the cookie write fails, registerTaxAdvisor still returns
\* success and the records stay as they are; nothing is rolled back.
C17_SessionFailureKeepsRecords ==
    [][\A c \in Clients :
          (/\ pc[c] = "createEmailPasswordSession"
           /\ pc'[c] = "done"
           /\ cookie'[c] = cookie[c]) =>
              /\ result'[c] = Success(loc[c].subdomain)
              /\ <<tenants, organizations, users, accounts, teams,
                   memberships>>' =
                 <<tenants, organizations, users, accounts, teams,
                   memberships>>
              /\ RecordsOf(c)]_vars

\* a registration returned success without a session, and its records
\* exist
C17_Witness ==
    \E c \in Clients :
        /\ pc[c] = "done"
        /\ result[c].success
        /\ ~ \E s \in sessions : s.id = <<"session", loc[c].n>>
        /\ RecordsOf(c)

\* no registerTaxAdvisor call is in progress
NoCallInProgress == \A c \in Clients : pc[c] \in {"idle", "done"}

\* the advisor organizations of tenant t
AdvisorOrganizations(t) ==
    {o \in organizations : o.tenant_id = t.id /\ o.type = "advisor"}

\* C18: after any sequence of registerTaxAdvisor calls, successful or
\* failed, every tenant record has exactly one advisor organization.
C18_OneAdvisorOrganization ==
    NoCallInProgress =>
        \A t \in tenants : Cardinality(AdvisorOrganizations(t)) = 1

\* C19: after any sequence of registrations each identity has at most one
\* user record, and the organization of that record belongs to the tenant
\* of the record; no identity is a member of two tenants.
C19_OneMembership ==
    \A u \in users :
        /\ \A v \in users : v.appwrite_user_id = u.appwrite_user_id => v = u
        /\ \E o \in organizations :
               o.id = u.organization_id /\ o.tenant_id = u.tenant_id

\* two registrations have each created a user record, in different tenants
C19_Witness ==
    \E u \in users, v \in users :
        /\ u.tenant_id # v.tenant_id
        /\ u.appwrite_user_id # v.appwrite_user_id

\* a getCurrentUser or validateSession request has just been answered
SessionAnswered ==
    req' # req /\ req'.op \in {"getCurrentUser", "validateSession"}

\* the cookie value names no session of the provider (never issued, or
\* expired)
InvalidCredential(credential) ==
    credential # NoId /\ ~ \E s \in sessions : s.id = credential

\* C20: getCurrentUser returns null, and raises nothing, when no cookie is
\* present and when the cookie names an expired or invalid session, the
\* two cases alike; validateSession returns false in both.  (A request
\* leaves the store unchanged, so the sessions are read in the state
\* before the answer.)
C20_NoSessionIsNull ==
    [][(/\ SessionAnswered
        /\ req'.credential = NoId \/ InvalidCredential(req'.credential)) =>
           /\ req'.op = "getCurrentUser" => req'.out = Null
           /\ req'.op = "validateSession" => req'.out = Some(FALSE)]_vars

\* getCurrentUser answered null for the cookie of a session that expired
C20_Witness ==
    /\ req.op = "getCurrentUser"
    /\ req.credential \in {cookie[c] : c \in Clients}
    /\ InvalidCredential(req.credential)
    /\ req.out = Null

\* C21: when the identity provider is unreachable, getCurrentUser and
\* validateSession surface a distinguished error and not the null / false
\* they return for an invalid credential.  (Without a cookie the provider
\* is not contacted.)
C21_ProviderUnavailableDistinguished ==
    (/\ req.op \in {"getCurrentUser", "validateSession"}
     /\ req.credential # NoId
     /\ ~ req.providerOk) =>
        /\ req.op = "getCurrentUser" => req.out # Null
        /\ req.op = "validateSession" => req.out # Some(FALSE)

\* calculateProgress has been applied to the checklist at hand
ProgressKnown == req.op = "checklist" /\ ~ req.progress.isNull

\* C22: calculateProgress depends on completed_items and total_items
\* only: it is 0 when total_items is 0 and otherwise the integer nearest
\* to completed_items / total_items * 100 (2 of 4 gives 50, 3 of 4 gives
\* 75), and it lies in 0..100.
C22_ProgressIsNearestPercent ==
    ProgressKnown =>
        LET completed == req.checklist.completed_items
            total == req.checklist.total_items
            progress == req.progress.value
        IN  /\ progress \in 0..100
            /\ \A status \in ChecklistStatus :
                   progress =
                       calculateProgress(
                           [req.checklist EXCEPT !.status = status])
            /\ total = 0 => progress = 0
            /\ total > 0 =>
                   /\ 2 * (progress * total - 100 * completed) <= total
                   /\ 2 * (100 * completed - progress * total) <= total
            /\ (completed = 2 /\ total = 4) => progress = 50
            /\ (completed = 3 /\ total = 4) => progress = 75

\* the progress of a checklist with 2 green items of 3 was computed as 67
C22_Witness ==
    /\ ProgressKnown
    /\ req.checklist.completed_items = 2
    /\ req.checklist.total_items = 3
    /\ req.progress.value = 67

\* both helpers have been applied to the checklist at hand
BothKnown == ProgressKnown /\ ~ req.complete.isNull

\* C29: for every checklist with 0 <= completed_items <= total_items,
\* calculateProgress returns 100 if and only if isChecklistComplete
\* returns true.
C29_FullProgressIffComplete ==
    BothKnown => (req.progress.value = 100 <=> req.complete.value)

\* deleteSession of caller c has just completed
LogoutReturned(c) ==
    req' # req /\ req'.op = "deleteSession" /\ req'.client = c

\* login of caller c has just returned
LoginReturned(c) == req' # req /\ req'.op = "login" /\ req'.client = c

\* the registration of caller c has just returned success from its session
\* step
RegisteredAndSignedIn(c) ==
    /\ pc[c] = "createEmailPasswordSession"
    /\ pc'[c] = "done"
    /\ result'[c].success

\* a request without a cookie is answered null / false
NoCookieIsUnauthenticated ==
    (SessionAnswered /\ req'.credential = NoId) =>
        /\ req'.op = "getCurrentUser" => req'.out = Null
        /\ req'.op = "validateSession" => req'.out = Some(FALSE)

\* the last call of login or deleteSession was a deleteSession of caller
\* c, who has had no cookie since
LoggedOut(c) ==
    req.op = "deleteSession" /\ req.client = c /\ cookie[c] = NoId

\* C23 as stated: deleteSession (and logout) always removes the session
\* cookie, also without a session and when the provider call fails;
\* afterwards getCurrentUser returns null and validateSession false, and
\* the caller gets a cookie again only by a login that succeeds.
C23_LoggedOutUntilLogin ==
    [][/\ \A c \in Clients :
             /\ LogoutReturned(c) => cookie'[c] = NoId
             /\ (LoggedOut(c) /\ cookie'[c] # NoId) =>
                    (LoginReturned(c) /\ req'.out.success)
       /\ NoCookieIsUnauthenticated]_vars

\* C23 as amended: the same, where the caller gets a cookie again by a
\* login that succeeds or by a registration that creates its session.
C23_LoggedOutUntilSignIn ==
    [][/\ \A c \in Clients :
             /\ LogoutReturned(c) => cookie'[c] = NoId
             /\ (cookie[c] = NoId /\ cookie'[c] # NoId) =>
                    \/ LoginReturned(c) /\ req'.out.success
                    \/ RegisteredAndSignedIn(c)
       /\ NoCookieIsUnauthenticated]_vars

\* deleteSession removed the cookie although the provider call failed and
\* the session still exists at the provider
C23_Witness ==
    /\ req.op = "deleteSession"
    /\ req.provider = "failed"
    /\ cookie[req.client] = NoId
    /\ \E s \in sessions : s.id = req.credential

\* C24: login sets the cookie, to the id of the new session, only when the
\* provider accepts the credentials; a rejection (401) returns the
\* invalid-credentials error, any other provider failure a different
\* error, and every failure leaves the existing cookie unchanged.
C24_LoginCookie ==
    [][\A c \in Clients :
          LoginReturned(c) =>
              /\ cookie'[c] # cookie[c] =>
                     /\ req'.provider = "accepted"
                     /\ req'.out.success
                     /\ \E s \in sessions' \ sessions : s.id = cookie'[c]
              /\ req'.out.success => cookie'[c] # cookie[c]
              /\ req'.provider = "rejected" =>
                     req'.out = Failure(ERR_INVALID_CREDENTIALS)
              /\ req'.provider = "failed" =>
                     /\ ~ req'.out.success
                     /\ req'.out.error # ERR_INVALID_CREDENTIALS
              /\ ~ req'.out.success => cookie' = cookie]_vars

\* a login with wrong credentials was rejected and the cookie of the
\* caller's earlier session is still in place
C24_Witness ==
    /\ req.op = "login"
    /\ req.provider = "rejected"
    /\ req.credential # NoId
    /\ cookie[req.client] = req.credential

\* the registerTaxAdvisor call of caller c has just returned
RegisterReturned(c) ==
    pc'[c] = "done" /\ (pc[c] # "done" \/ loc'[c].n # loc[c].n)

\* no tenant, organization or user record of call number n is in the
\* given collections
NoRecordsIn(n, ts, os, us) ==
    /\ ~ \E t \in ts : t.id = <<"tenant", n>>
    /\ ~ \E o \in os : o.id = <<"organization", n>>
    /\ ~ \E u \in us : u.id = <<"user", n>>

\* no tenant, organization or user record of call number n exists
NoRecordsOf(n) == NoRecordsIn(n, tenants, organizations, users)

\* C25: when createTenant fails, the failure is returned only after
\* teams.delete was called for the team of the same call (the team is
\* gone unless that deletion failed), and no tenant, organization or user
\* record exists for the registration.
C25_TeamDeletedAfterTenantFailure ==
    [][\A c \in Clients :
          (RegisterReturned(c) /\ result'[c] = Failure(ERR_TENANT)) =>
              /\ pc[c] = "teams.delete"
              /\ loc[c].team \in teams
              /\ teams' \in {teams \ {loc[c].team}, teams}
              /\ NoRecordsIn(loc[c].n, tenants', organizations', users')]_vars

\* a call returned the createTenant failure, its team is gone and it has
\* left no record
C25_Witness ==
    \E c \in Clients :
        /\ result[c] = Failure(ERR_TENANT)
        /\ loc[c].team # NoId
        /\ loc[c].team \notin teams
        /\ NoRecordsOf(loc[c].n)

\* the failures before anything is created
EarlyErrors ==
    {ERR_VALIDATION, ERR_TAKEN, ERR_UNEXPECTED, ERR_DUPLICATE_EMAIL}

\* C26: when registerTaxAdvisor fails because of form validation, a taken
\* subdomain, an error of the availability lookup or a duplicate e-mail,
\* the store is unchanged: the call has created no account, team, tenant,
\* organization or user record and has set no session cookie.
C26_EarlyFailureChangesNothing ==
    [][\A c \in Clients :
          (/\ RegisterReturned(c)
           /\ ~ result'[c].success
           /\ result'[c].error \in EarlyErrors) =>
              /\ store' = store
              /\ cookie' = cookie
              /\ <<"account", loc'[c].n>> \notin IdsOf(accounts')
              /\ <<"team", loc'[c].n>> \notin teams'
              /\ cookie'[c] # <<"session", loc'[c].n>>
              /\ NoRecordsIn(loc'[c].n, tenants', organizations', users')]_vars

\* a call failed with the duplicate e-mail error after another call had
\* registered a tenant, and has left nothing of its own
C26_Witness ==
    \E c \in Clients :
        /\ result[c] = Failure(ERR_DUPLICATE_EMAIL)
        /\ tenants # {}
        /\ <<"team", loc[c].n>> \notin teams
        /\ NoRecordsOf(loc[c].n)

\* C30: whenever registerTaxAdvisor has returned success, the account the
\* call created holds an owner membership in the team the call created.
C30_OwnerMembershipOnSuccess ==
    \A c \in Clients :
        (pc[c] = "done" /\ result[c].success /\ loc[c].team # NoId) =>
            [team |-> loc[c].team, userId |-> loc[c].appwriteUser,
             roles |-> {"owner"}] \in memberships

\* the failures after the account was created
LateErrors == {ERR_TEAM, ERR_TENANT, ERR_ORGANIZATION, ERR_USER}

\* account a was created by a call that is over and left no user record
Orphaned(a) ==
    /\ <<"user", a.id[2]>> \notin IdsOf(users)
    /\ ~ \E d \in Clients : loc[d].n = a.id[2] /\ pc[d] # "done"

\* the call of c runs with the e-mail of an account that an earlier call
\* left behind
LaterCall(c) ==
    /\ pc[c] \notin {"idle", "done"}
    /\ \E a \in accounts :
        /\ a.email = registrationSchemaParse(form[c]).email
        /\ a.id[2] < loc[c].n
        /\ Orphaned(a)

\* C28 as stated: the account of a call that failed at team, tenant,
\* organization or user-record creation is never removed, and every later
\* call with the same e-mail that the providers answer fails with the
\* duplicate e-mail error and creates no tenant.
C28_RetryFailsWithDuplicateEmail ==
    [][/\ accounts \subseteq accounts'
       /\ \A c \in Clients :
            (/\ RegisterReturned(c)
             /\ LaterCall(c)
             /\ result'[c].error \notin {ERR_UNEXPECTED, ERR_ACCOUNT}) =>
                /\ result'[c] = Failure(ERR_DUPLICATE_EMAIL)
                /\ <<"tenant", loc[c].n>> \notin IdsOf(tenants')]_vars

\* C28 amended: the account is never removed, and a later call with the
\* same e-mail never succeeds and creates no account and no tenant; it
\* ends at the subdomain check or at account creation, and at account
\* creation the provider's answer is the duplicate e-mail error.
C28_RetryNeverSucceeds ==
    [][/\ accounts \subseteq accounts'
       /\ \A c \in Clients :
            (RegisterReturned(c) /\ LaterCall(c)) =>
                /\ ~ result'[c].success
                /\ pc[c] \in {"isSubdomainAvailable", "account.create"}
                /\ result'[c].error \in
                       {ERR_TAKEN, ERR_UNEXPECTED,
                        ERR_DUPLICATE_EMAIL, ERR_ACCOUNT}
                /\ (pc[c] = "account.create" =>
                       result'[c].error \in
                           {ERR_DUPLICATE_EMAIL, ERR_ACCOUNT})
                /\ <<"account", loc[c].n>> \notin IdsOf(accounts')
                /\ <<"tenant", loc[c].n>> \notin IdsOf(tenants')]_vars

\* a call failed late, its account is still there, and a later call with
\* the same e-mail was refused as a duplicate
C28_Witness ==
    \E c \in Clients :
        /\ pc[c] = "done"
        /\ result[c] = Failure(ERR_DUPLICATE_EMAIL)
        /\ \E a \in accounts :
            /\ a.email = registrationSchemaParse(form[c]).email
            /\ a.id[2] < loc[c].n
            /\ Orphaned(a)
            /\ \/ \E d \in Clients :
                    loc[d].n = a.id[2] /\ result[d].error \in LateErrors
               \/ \A d \in Clients : loc[d].n # a.id[2]

\* C27: for every Host header middleware, getSubdomain and getTenantContext
\* derive the same tenant slug or all derive none: a request is rewritten
\* to /tenants/s/... exactly when getSubdomain returns s, and
\* getTenantContext fails with the no-tenant error exactly when middleware
\* passes the request through.
C27_SameSlugEverywhere ==
    /\ req.op = "middleware" =>
        /\ req.out.kind = "rewrite" <=> ~ getSubdomain(req.host).isNull
        /\ req.out.kind = "rewrite" =>
               req.out.pathname =
                   TENANTS_PREFIX \o getSubdomain(req.host).value
                                  \o req.path
        /\ req.out.kind = "next" <=> ~ getTenantContext(req.host).ok
    /\ req.op = "getSubdomain" =>
        /\ req.out.isNull <=>
               middleware(req.host, Str("/")).kind = "next"
        /\ req.out.isNull <=> ~ getTenantContext(req.host).ok
        /\ ~ req.out.isNull =>
               getTenantContext(req.host).subdomain = req.out.value
    /\ req.op = "getTenantContext" =>
        /\ ~ req.out.ok <=> middleware(req.host, Str("/")).kind = "next"
        /\ ~ req.out.ok =>
               req.out.error = "No tenant subdomain found in request"
        /\ req.out.ok => getSubdomain(req.host) = Some(req.out.subdomain)

====
